---- MODULE Spec2Model ----
(***************************************************************************)
(* kak-ui: the serde codec between kakoune's JSON-RPC UI protocol          *)
(* (method + positional params) and the typed IncomingRequest /            *)
(* OutgoingRequest enums of src/lib.rs.                                    *)
(*                                                                         *)
(* A string is a sequence of characters, each a one-character TLA+ string; *)
(* the character written "U+00E9" stands for e-acute, two bytes of UTF-8,   *)
(* every other for one byte, so that Rust's byte-indexed slicing          *)
(* (&x[..4]) is modelled with its boundary checks.                         *)
(* An object of JSON is the sequence of its <<key, value>> entries in       *)
(* document order.                                                         *)
(* A call's outcome is a record [k, val]: k is "ok", "err" or "panic".     *)
(***************************************************************************)
EXTENDS Integers, Sequences, FiniteSets, TLC

VARIABLES op, input, output, pc, msg, buffer, raw, result

vars == <<op, input, output, pc, msg, buffer, raw, result>>

---------------------------------------------------------------------------
(* Bounds of the explored inputs. *)

\* longest color token drawn from TokenAlphabet
MaxTokenLen == 5
\* params slots appended past a method's arity
MaxExtra == 1
\* longest key list of OutgoingRequest::Keys
MaxKeys == 2
\* largest u32 field value of an OutgoingRequest
MaxU32 == 2
\* threads decoding concurrently
NThreads == 2

---------------------------------------------------------------------------
(* Outcomes and JSON values. *)

Ok(v) == [k |-> "ok", val |-> v]
\* a serde error: its kind, and the offending token where it carries one
Err(kind, token) == [k |-> "err", val |-> [kind |-> kind, token |-> token]]
Panic(e) == [k |-> "panic", val |-> e]

\* the ? operator: a failure of r is returned, a success is passed on
AndThen(r, F(_)) == IF r.k # "ok" THEN r ELSE F(r.val)

\* a JSON value: t is its type, and the field of that type its payload (n a
\* number, b a boolean, s a string, a the elements of an array, o the
\* entries of an object); the other fields are empty
J(t, n, b, s, a, o) == [t |-> t, n |-> n, b |-> b, s |-> s, a |-> a, o |-> o]
JNull == J("null", 0, FALSE, <<>>, <<>>, <<>>)
JBool(b) == J("bool", 0, b, <<>>, <<>>, <<>>)
JNum(n) == J("num", n, FALSE, <<>>, <<>>, <<>>)
JStr(s) == J("str", 0, FALSE, s, <<>>, <<>>)
JArr(a) == J("arr", 0, FALSE, <<>>, a, <<>>)
JObj(entries) == J("obj", 0, FALSE, <<>>, <<>>, entries)

---------------------------------------------------------------------------
(* String literals of the source. *)

S_black == <<"b", "l", "a", "c", "k">>
S_red == <<"r", "e", "d">>
S_green == <<"g", "r", "e", "e", "n">>
S_yellow == <<"y", "e", "l", "l", "o", "w">>
S_blue == <<"b", "l", "u", "e">>
S_purple == <<"p", "u", "r", "p", "l", "e">>
S_cyan == <<"c", "y", "a", "n">>
S_white == <<"w", "h", "i", "t", "e">>
S_default == <<"d", "e", "f", "a", "u", "l", "t">>
S_rgb == <<"r", "g", "b", ":">>
S_rgba == <<"r", "g", "b", "a", ":">>
S_version == <<"2", ".", "0">>

S_underline == <<"u", "n", "d", "e", "r", "l", "i", "n", "e">>
S_reverse == <<"r", "e", "v", "e", "r", "s", "e">>
S_blink == <<"b", "l", "i", "n", "k">>
S_bold == <<"b", "o", "l", "d">>
S_dim == <<"d", "i", "m">>
S_italic == <<"i", "t", "a", "l", "i", "c">>
S_final_fg == <<"f", "i", "n", "a", "l", "_", "f", "g">>
S_final_bg == <<"f", "i", "n", "a", "l", "_", "b", "g">>
S_final_attr == <<"f", "i", "n", "a", "l", "_", "a", "t", "t", "r">>

S_draw == <<"d", "r", "a", "w">>
S_draw_status == <<"d", "r", "a", "w", "_", "s", "t", "a", "t", "u", "s">>
S_menu_show == <<"m", "e", "n", "u", "_", "s", "h", "o", "w">>
S_menu_select == <<"m", "e", "n", "u", "_", "s", "e", "l", "e", "c", "t">>
S_menu_hide == <<"m", "e", "n", "u", "_", "h", "i", "d", "e">>
S_info_show == <<"i", "n", "f", "o", "_", "s", "h", "o", "w">>
S_info_hide == <<"i", "n", "f", "o", "_", "h", "i", "d", "e">>
S_set_cursor == <<"s", "e", "t", "_", "c", "u", "r", "s", "o", "r">>
S_set_ui_options == <<"s", "e", "t", "_", "u", "i", "_", "o", "p", "t", "i", "o", "n", "s">>
S_refresh == <<"r", "e", "f", "r", "e", "s", "h">>

S_keys == <<"k", "e", "y", "s">>
S_resize == <<"r", "e", "s", "i", "z", "e">>
S_scroll == <<"s", "c", "r", "o", "l", "l">>
S_mouse_move == <<"m", "o", "u", "s", "e", "_", "m", "o", "v", "e">>
S_mouse_press == <<"m", "o", "u", "s", "e", "_", "p", "r", "e", "s", "s">>
S_mouse_release == <<"m", "o", "u", "s", "e", "_", "r", "e", "l", "e", "a", "s", "e">>

---------------------------------------------------------------------------
(* Rust string slicing: indices count bytes and must fall on a character   *)
(* boundary no greater than the length, else the slice panics.             *)

\* bytes of one character in UTF-8
CharWidth(c) == IF c = "U+00E9" THEN 2 ELSE 1

RECURSIVE ByteLen(_)
ByteLen(s) == IF s = <<>> THEN 0 ELSE CharWidth(Head(s)) + ByteLen(Tail(s))

\* str::is_char_boundary: byte index n starts a character or equals len
IsCharBoundary(s, n) ==
    \E i \in 0..Len(s) : ByteLen(SubSeq(s, 1, i)) = n

\* the characters of &s[..n], for n a character boundary
SliceTo(s, n) ==
    LET i == CHOOSE j \in 0..Len(s) : ByteLen(SubSeq(s, 1, j)) = n
    IN  SubSeq(s, 1, i)

\* the characters of &s[n..], for n a character boundary
SliceFrom(s, n) ==
    LET i == CHOOSE j \in 0..Len(s) : ByteLen(SubSeq(s, 1, j)) = n
    IN  SubSeq(s, i + 1, Len(s))

---------------------------------------------------------------------------
(* KakColor and ColorVisitor::visit_str. *)

RGB(payload) == [c |-> "RGB", payload |-> payload]
RGBA(payload) == [c |-> "RGBA", payload |-> payload]
Named(name) == [c |-> name, payload |-> <<>>]

ColorKeywords ==
    {S_black, S_red, S_green, S_yellow, S_blue, S_purple, S_cyan, S_white,
     S_default}

KeywordColor(s) ==
    CASE s = S_black   -> Named("Black")
      [] s = S_red     -> Named("Red")
      [] s = S_green   -> Named("Green")
      [] s = S_yellow  -> Named("Yellow")
      [] s = S_blue    -> Named("Blue")
      [] s = S_purple  -> Named("Purple")
      [] s = S_cyan    -> Named("Cyan")
      [] s = S_white   -> Named("White")
      [] s = S_default -> Named("Default")

\* PrefixArm with the rgb: payload cut one byte early, so that it keeps
\* the colon
PrefixArmKeepsColon(x) ==
    IF ~IsCharBoundary(x, 4) THEN Panic("slice")
    ELSE IF SliceTo(x, 4) = S_rgb THEN Ok(RGB(SliceFrom(x, 3)))
    ELSE IF ~IsCharBoundary(x, 5) THEN Panic("slice")
    ELSE IF SliceTo(x, 5) = S_rgba THEN Ok(RGBA(SliceFrom(x, 5)))
    ELSE Err("invalid_value", x)

\* the fallback arm x => { ... } of visit_str
PrefixArm(x) ==
    IF ~IsCharBoundary(x, 4) THEN Panic("slice")
    ELSE IF SliceTo(x, 4) = S_rgb THEN Ok(RGB(SliceFrom(x, 4)))
    ELSE IF ~IsCharBoundary(x, 5) THEN Panic("slice")
    ELSE IF SliceTo(x, 5) = S_rgba THEN Ok(RGBA(SliceFrom(x, 5)))
    ELSE Err("invalid_value", x)

visit_str(s) ==
    IF s \in ColorKeywords THEN Ok(KeywordColor(s)) ELSE PrefixArm(s)

---------------------------------------------------------------------------
(* The derived Deserialize impls, as serde runs them on buffered content   *)
(* (the flattened JsonRpc envelope buffers every field but jsonrpc).       *)

AttributeNames ==
    {S_underline, S_reverse, S_blink, S_bold, S_dim, S_italic, S_final_fg,
     S_final_bg, S_final_attr}

\* the characters of an object key that is read as a variant name
KeyChars(key) == [i \in 1..Len(key) |-> SubSeq(key, i, i)]

\* the payload of a variant without data, in a single-key map: unit, which
\* buffered content also reads from an empty map
DecUnit(j) ==
    IF j.t = "null" \/ (j.t = "obj" /\ j.o = <<>>) THEN Ok(TRUE)
    ELSE Err("invalid_type", <<>>)

\* deserialize_enum on buffered content for variants without data, names
\* being their wire names: a string naming the variant, or a map of one
\* entry whose key names the variant and whose value is unit
DecUnitVariant(j, names) ==
    IF j.t = "str"
    THEN IF j.s \in names THEN Ok(j.s) ELSE Err("unknown_variant", j.s)
    ELSE IF j.t # "obj" THEN Err("invalid_type", <<>>)
    ELSE IF Len(j.o) # 1 THEN Err("invalid_value", <<>>)
    ELSE IF KeyChars(j.o[1][1]) \notin names
    THEN Err("unknown_variant", KeyChars(j.o[1][1]))
    ELSE AndThen(DecUnit(j.o[1][2]),
                 LAMBDA u : Ok(KeyChars(j.o[1][1])))

\* field names of a derived struct, in declaration order
StructFields(ty) ==
    CASE ty = "face"  -> <<"fg", "bg", "attributes">>
      [] ty = "atom"  -> <<"face", "contents">>
      [] ty = "coord" -> <<"line", "column">>

\* field types of a derived struct, in declaration order
StructTypes(ty) ==
    CASE ty = "face"  -> <<"color", "color", "attributes">>
      [] ty = "atom"  -> <<"face", "string">>
      [] ty = "coord" -> <<"u32", "u32">>

\* the struct value built from its field values in declaration order
MkStruct(ty, vals) ==
    CASE ty = "face"  -> [fg |-> vals[1], bg |-> vals[2], attributes |-> vals[3]]
      [] ty = "atom"  -> [face |-> vals[1], contents |-> vals[2]]
      [] ty = "coord" -> [line |-> vals[1], column |-> vals[2]]

\* element type of Vec<KakAttribute>, KakLine, Vec<KakLine>
ElemType(ty) ==
    CASE ty = "attributes" -> "attribute"
      [] ty = "line"       -> "atom"
      [] ty = "lines"      -> "line"

Unset == [k |-> "none", val |-> 0]

Min(a, b) == IF a < b THEN a ELSE b

\* the position of a field among the names of its struct
FieldIndex(names, key) == CHOOSE n \in 1..Len(names) : names[n] = key

RECURSIVE Dec(_, _), DecItems(_, _), DecFields(_, _, _, _), DecMap(_)

\* elements decoded left to right; the first failure ends the decode
DecItems(tys, items) ==
    IF items = <<>> THEN Ok(<<>>)
    ELSE AndThen(Dec(Head(tys), Head(items)), LAMBDA h :
         AndThen(DecItems(Tail(tys), Tail(items)), LAMBDA rest :
         Ok(<<h>> \o rest)))

\* a fixed-arity tuple read from a sequence: its elements are read in
\* order, a missing one is an invalid_length error when it is asked for,
\* a surplus one when the sequence is ended
DecTuple(tys, items) ==
    AndThen(DecItems(SubSeq(tys, 1, Min(Len(tys), Len(items))),
                     SubSeq(items, 1, Min(Len(tys), Len(items)))),
            LAMBDA vals : IF Len(items) # Len(tys)
                          THEN Err("invalid_length", <<>>)
                          ELSE Ok(vals))

\* a Vec read from a sequence
DecVec(elem, items) == DecItems([i \in 1..Len(items) |-> elem], items)

\* a derived struct read from a map: entries in document order, unknown
\* keys ignored, a repeated field or a missing one an error
DecFields(names, tys, entries, acc) ==
    IF entries = <<>>
    THEN IF \E i \in 1..Len(names) : acc[i].k = "none"
         THEN Err("missing_field", <<>>)
         ELSE Ok([i \in 1..Len(names) |-> acc[i].val])
    ELSE IF \A i \in 1..Len(names) : names[i] # Head(entries)[1]
    THEN DecFields(names, tys, Tail(entries), acc)
    ELSE IF acc[FieldIndex(names, Head(entries)[1])].k # "none"
    THEN Err("duplicate_field", <<>>)
    ELSE AndThen(Dec(tys[FieldIndex(names, Head(entries)[1])],
                     Head(entries)[2]),
                 LAMBDA val :
                   DecFields(names, tys, Tail(entries),
                             [acc EXCEPT ![FieldIndex(names, Head(entries)[1])]
                                           = Ok(val)]))

\* HashMap<String, String> read from a map: a later entry replaces an
\* earlier one of the same key
DecMap(entries) ==
    IF entries = <<>> THEN Ok(<<>>)
    ELSE AndThen(Dec("string", Head(entries)[2]), LAMBDA val :
         AndThen(DecMap(Tail(entries)), LAMBDA rest :
         Ok(rest @@ (Head(entries)[1] :> val))))

\* Deserialize for the type ty from the JSON value j
Dec(ty, j) ==
    CASE ty = "u32" ->
           \* numbers past the checker's integers are not drawn; every
           \* non-negative one drawn fits u32
           IF j.t = "num" THEN IF j.n >= 0 THEN Ok(j.n)
                                            ELSE Err("invalid_value", <<>>)
           ELSE Err("invalid_type", <<>>)
      [] ty = "bool" ->
           IF j.t = "bool" THEN Ok(j.b) ELSE Err("invalid_type", <<>>)
      [] ty = "string" ->
           IF j.t = "str" THEN Ok(j.s) ELSE Err("invalid_type", <<>>)
      [] ty = "color" ->
           IF j.t = "str" THEN visit_str(j.s) ELSE Err("invalid_type", <<>>)
      [] ty = "attribute" -> DecUnitVariant(j, AttributeNames)
      [] ty \in {"attributes", "line", "lines"} ->
           IF j.t = "arr" THEN DecVec(ElemType(ty), j.a)
           ELSE Err("invalid_type", <<>>)
      [] ty \in {"face", "atom", "coord"} ->
           AndThen(IF j.t = "arr" THEN DecTuple(StructTypes(ty), j.a)
                   ELSE IF j.t = "obj"
                   THEN DecFields(StructFields(ty), StructTypes(ty), j.o,
                                  [i \in 1..Len(StructFields(ty)) |-> Unset])
                   ELSE Err("invalid_type", <<>>),
                   LAMBDA vals : Ok(MkStruct(ty, vals)))
      [] ty = "options" ->
           IF j.t = "obj" THEN DecMap(j.o) ELSE Err("invalid_type", <<>>)

---------------------------------------------------------------------------
(* RawIncomingRequest: adjacently tagged (tag "method", content "params"), *)
(* variant names in snake case.                                            *)

\* wire names of the variants, in declaration order
IncomingMethods ==
    <<S_draw, S_draw_status, S_menu_show, S_menu_select, S_menu_hide,
      S_info_show, S_info_hide, S_set_cursor, S_set_ui_options, S_refresh>>

IncomingVariants ==
    <<"Draw", "DrawStatus", "MenuShow", "MenuSelect", "MenuHide", "InfoShow",
      "InfoHide", "SetCursor", "SetUiOptions", "Refresh">>

\* types of the positional slots of each variant's params
SlotTypes(variant) ==
    CASE variant = "Draw"         -> <<"lines", "face", "face">>
      [] variant = "DrawStatus"   -> <<"line", "line", "face">>
      [] variant = "MenuShow"     -> <<"lines", "coord", "face", "face", "string">>
      [] variant = "MenuSelect"   -> <<"u32">>
      [] variant = "MenuHide"     -> <<>>
      [] variant = "InfoShow"     -> <<"line", "lines", "coord", "face", "string">>
      [] variant = "InfoHide"     -> <<>>
      [] variant = "SetCursor"    -> <<"string", "coord">>
      [] variant = "SetUiOptions" -> <<"options">>
      [] variant = "Refresh"      -> <<"bool">>

\* the variant a "method" value names: the tag is read as an enum of the
\* variant names, from the wire name or from a single-key map
DecVariant(j) ==
    AndThen(DecUnitVariant(j, {IncomingMethods[i] :
                                  i \in 1..Len(IncomingMethods)}),
            LAMBDA name :
              Ok(IncomingVariants[CHOOSE i \in 1..Len(IncomingMethods) :
                                      IncomingMethods[i] = name]))

\* the "params" value read as the variant's tuple
DecContent(variant, j) ==
    IF j.t # "arr" THEN Err("invalid_type", <<>>)
    ELSE AndThen(DecTuple(SlotTypes(variant), j.a),
                 LAMBDA vals : Ok([variant |-> variant, slots |-> vals]))

\* the derived visitor of the enum on the entries named method or params,
\* in document order: the tag first, or the content first and kept until
\* the tag is read
AdjacentlyTagged(fields) ==
    IF fields = <<>> THEN Err("missing_field", <<>>)
    ELSE IF fields[1][1] = "method"
    THEN AndThen(DecVariant(fields[1][2]), LAMBDA variant :
           IF Len(fields) = 1 THEN Err("missing_field", <<>>)
           ELSE IF fields[2][1] = "method" THEN Err("duplicate_field", <<>>)
           ELSE AndThen(DecContent(variant, fields[2][2]), LAMBDA r :
                  IF Len(fields) > 2 THEN Err("duplicate_field", <<>>)
                  ELSE Ok(r)))
    ELSE IF Len(fields) = 1 THEN Err("missing_field", <<>>)
    ELSE IF fields[2][1] = "params" THEN Err("duplicate_field", <<>>)
    ELSE AndThen(DecVariant(fields[2][2]), LAMBDA variant :
         AndThen(DecContent(variant, fields[1][2]), LAMBDA r :
           IF Len(fields) > 2 THEN Err("duplicate_field", <<>>)
           ELSE Ok(r)))

\* RawIncomingRequest read from the entries the envelope buffered
DecRawIncomingRequest(collect) ==
    AdjacentlyTagged(SelectSeq(collect,
                               LAMBDA e : e[1] \in {"method", "params"}))

---------------------------------------------------------------------------
(* JsonRpc<T>: the field jsonrpc: String, and the flattened inner value.   *)

RECURSIVE JsonRpcFields(_, _, _)
\* the envelope's pass over the object: jsonrpc is read as a String, every
\* other entry is buffered
JsonRpcFields(entries, jsonrpc, collect) ==
    IF entries = <<>>
    THEN IF jsonrpc.k = "none" THEN Err("missing_field", <<>>)
         ELSE Ok([jsonrpc |-> jsonrpc.val, collect |-> collect])
    ELSE IF Head(entries)[1] # "jsonrpc"
    THEN JsonRpcFields(Tail(entries), jsonrpc, Append(collect, Head(entries)))
    ELSE IF jsonrpc.k # "none" THEN Err("duplicate_field", <<>>)
    ELSE AndThen(Dec("string", Head(entries)[2]), LAMBDA val :
                 JsonRpcFields(Tail(entries), Ok(val), collect))

\* JsonRpcEnvelope that also requires the version to be "2.0"
JsonRpcEnvelopeStrict(j) ==
    IF j.t # "obj" THEN Err("invalid_type", <<>>)
    ELSE AndThen(JsonRpcFields(j.o, Unset, <<>>),
                 LAMBDA e : IF e.jsonrpc = S_version THEN Ok(e)
                            ELSE Err("invalid_value", e.jsonrpc))

\* the derived visitor of JsonRpc on the object j
JsonRpcEnvelope(j) ==
    IF j.t # "obj" THEN Err("invalid_type", <<>>)
    ELSE JsonRpcFields(j.o, Unset, <<>>)

\* <JsonRpc<RawIncomingRequest>>::deserialize
JsonRpc_deserialize(j) ==
    AndThen(JsonRpcEnvelope(j), LAMBDA e :
    AndThen(DecRawIncomingRequest(e.collect), LAMBDA r :
    Ok([jsonrpc |-> e.jsonrpc, inner |-> r])))

----------------
(* impl From<RawIncomingRequest> for IncomingRequest *)

\* IncomingRequest_from with the two faces of Draw exchanged
IncomingRequest_from_swapped(raw_request) ==
    LET a == raw_request.slots
    IN  CASE raw_request.variant = "Draw" ->
               [variant |-> "Draw", lines |-> a[1], default_face |-> a[3],
                padding_face |-> a[2]]
          [] raw_request.variant = "DrawStatus" ->
               [variant |-> "DrawStatus", status_line |-> a[1],
                mode_line |-> a[2], default_face |-> a[3]]
          [] raw_request.variant = "MenuShow" ->
               [variant |-> "MenuShow", items |-> a[1], anchor |-> a[2],
                selected_item_face |-> a[3], menu_face |-> a[4],
                style |-> a[5]]
          [] raw_request.variant = "MenuSelect" ->
               [variant |-> "MenuSelect", selected |-> a[1]]
          [] raw_request.variant = "MenuHide" -> [variant |-> "MenuHide"]
          [] raw_request.variant = "InfoShow" ->
               [variant |-> "InfoShow", title |-> a[1], content |-> a[2],
                anchor |-> a[3], face |-> a[4], style |-> a[5]]
          [] raw_request.variant = "InfoHide" -> [variant |-> "InfoHide"]
          [] raw_request.variant = "SetCursor" ->
               [variant |-> "SetCursor", mode |-> a[1], coord |-> a[2]]
          [] raw_request.variant = "SetUiOptions" ->
               [variant |-> "SetUiOptions", options |-> a[1]]
          [] raw_request.variant = "Refresh" ->
               [variant |-> "Refresh", force |-> a[1]]

IncomingRequest_from(raw_request) ==
    LET a == raw_request.slots
    IN  CASE raw_request.variant = "Draw" ->
               [variant |-> "Draw", lines |-> a[1], default_face |-> a[2],
                padding_face |-> a[3]]
          [] raw_request.variant = "DrawStatus" ->
               [variant |-> "DrawStatus", status_line |-> a[1],
                mode_line |-> a[2], default_face |-> a[3]]
          [] raw_request.variant = "MenuShow" ->
               [variant |-> "MenuShow", items |-> a[1], anchor |-> a[2],
                selected_item_face |-> a[3], menu_face |-> a[4],
                style |-> a[5]]
          [] raw_request.variant = "MenuSelect" ->
               [variant |-> "MenuSelect", selected |-> a[1]]
          [] raw_request.variant = "MenuHide" -> [variant |-> "MenuHide"]
          [] raw_request.variant = "InfoShow" ->
               [variant |-> "InfoShow", title |-> a[1], content |-> a[2],
                anchor |-> a[3], face |-> a[4], style |-> a[5]]
          [] raw_request.variant = "InfoHide" -> [variant |-> "InfoHide"]
          [] raw_request.variant = "SetCursor" ->
               [variant |-> "SetCursor", mode |-> a[1], coord |-> a[2]]
          [] raw_request.variant = "SetUiOptions" ->
               [variant |-> "SetUiOptions", options |-> a[1]]
          [] raw_request.variant = "Refresh" ->
               [variant |-> "Refresh", force |-> a[1]]

\* impl Deserialize for IncomingRequest
IncomingRequest_deserialize(j) ==
    AndThen(JsonRpc_deserialize(j),
            LAMBDA rpc : Ok(IncomingRequest_from(rpc.inner)))

---------------------------------------------------------------------------
(* OutgoingRequest, RawOutgoingRequest and the Serialize impl. *)

\* wire names of the variants (rename_all = "snake_case")
OutgoingMethod(variant) ==
    CASE variant = "Keys"         -> S_keys
      [] variant = "Resize"       -> S_resize
      [] variant = "Scroll"       -> S_scroll
      [] variant = "MouseMove"    -> S_mouse_move
      [] variant = "MousePress"   -> S_mouse_press
      [] variant = "MouseRelease" -> S_mouse_release
      [] variant = "MenuSelect"   -> S_menu_select

\* the tuple payloads of RawOutgoingRequest_from, for the variants but Keys
TuplePayload(request) ==
    CASE request.variant = "Resize" ->
           [variant |-> "Resize",
            content |-> <<request.rows, request.columns>>]
      [] request.variant = "Scroll" ->
           [variant |-> "Scroll", content |-> <<request.amount>>]
      [] request.variant = "MouseMove" ->
           [variant |-> "MouseMove",
            content |-> <<request.line, request.column>>]
      [] request.variant = "MousePress" ->
           [variant |-> "MousePress",
            content |-> <<request.button, request.line, request.column>>]
      [] request.variant = "MouseRelease" ->
           [variant |-> "MouseRelease",
            content |-> <<request.button, request.line, request.column>>]
      [] request.variant = "MenuSelect" ->
           [variant |-> "MenuSelect", content |-> <<request.index>>]

\* RawOutgoingRequest_from with the fields of Resize exchanged
RawOutgoingRequest_from_swapped(request) ==
    IF request.variant = "Keys"
    THEN [variant |-> "Keys", content |-> request.keys]
    ELSE IF request.variant = "Resize"
    THEN [variant |-> "Resize", content |-> <<request.columns, request.rows>>]
    ELSE TuplePayload(request)

\* RawOutgoingRequest_from with the key list wrapped like the one-field
\* variants, Keys((vec,))
RawOutgoingRequest_from_wrapped(request) ==
    IF request.variant = "Keys"
    THEN [variant |-> "Keys", content |-> <<request.keys>>]
    ELSE TuplePayload(request)

\* impl From<OutgoingRequest> for RawOutgoingRequest: content is the
\* variant's payload, the Vec itself for Keys and a tuple for the others
RawOutgoingRequest_from(request) ==
    CASE request.variant = "Keys" ->
           [variant |-> "Keys", content |-> request.keys]
      [] request.variant = "Resize" ->
           [variant |-> "Resize",
            content |-> <<request.rows, request.columns>>]
      [] request.variant = "Scroll" ->
           [variant |-> "Scroll", content |-> <<request.amount>>]
      [] request.variant = "MouseMove" ->
           [variant |-> "MouseMove",
            content |-> <<request.line, request.column>>]
      [] request.variant = "MousePress" ->
           [variant |-> "MousePress",
            content |-> <<request.button, request.line, request.column>>]
      [] request.variant = "MouseRelease" ->
           [variant |-> "MouseRelease",
            content |-> <<request.button, request.line, request.column>>]
      [] request.variant = "MenuSelect" ->
           [variant |-> "MenuSelect", content |-> <<request.index>>]

\* the payload of a variant written as the "params" value
SerContent(variant, content) ==
    CASE variant = "Keys" ->
           JArr([i \in 1..Len(content) |-> JStr(content[i])])
      [] variant \in {"MousePress", "MouseRelease"} ->
           JArr(<<JStr(content[1]), JNum(content[2]), JNum(content[3])>>)
      [] variant \in {"Resize", "Scroll", "MouseMove", "MenuSelect"} ->
           JArr([i \in 1..Len(content) |-> JNum(content[i])])

\* JsonRpc::new
JsonRpc_new(inner) == [jsonrpc |-> S_version, inner |-> inner]

\* the derived Serialize of JsonRpc<RawOutgoingRequest>: jsonrpc, then the
\* flattened tag and content entries
JsonRpc_serialize(rpc) ==
    Ok(JObj(<< <<"jsonrpc", JStr(rpc.jsonrpc)>>,
               <<"method", JStr(OutgoingMethod(rpc.inner.variant))>>,
               <<"params", SerContent(rpc.inner.variant, rpc.inner.content)>> >>))

\* impl Serialize for OutgoingRequest
OutgoingRequest_serialize(request) ==
    JsonRpc_serialize(JsonRpc_new(RawOutgoingRequest_from(request)))

---------------------------------------------------------------------------
(* Inputs. *)

TokenAlphabet == {"r", "g", "b", "a", ":", "U+00E9"}

S_rgb_ff0000 == S_rgb \o <<"f", "f", "0", "0", "0", "0">>
S_rgba_ff0000ff == S_rgba \o <<"f", "f", "0", "0", "0", "0", "f", "f">>
S_chartreuse == <<"c", "h", "a", "r", "t", "r", "e", "u", "s", "e">>
S_Black == <<"B", "l", "a", "c", "k">>
S_RED == <<"R", "E", "D">>
S_abcd == <<"a", "b", "c", "d">>
S_rgb_short == <<"r", "g", "b">>

SampleTokens ==
    {S_rgb_ff0000, S_rgba_ff0000ff, S_chartreuse, S_Black, S_RED, S_abcd,
     S_rgb_short}

\* the color tokens decoded: every string over TokenAlphabet up to
\* MaxTokenLen characters, the keywords and the samples
Tokens ==
    UNION {[1..n -> TokenAlphabet] : n \in 0..MaxTokenLen}
        \cup ColorKeywords \cup SampleTokens

ColorInputs == {JStr(s) : s \in Tokens} \cup {JNum(1), JNull}

Face(fg, bg, attributes) ==
    JObj(<< <<"fg", JStr(fg)>>, <<"bg", JStr(bg)>>,
            <<"attributes", JArr(attributes)>> >>)
Atom(face, contents) ==
    JObj(<< <<"face", face>>, <<"contents", JStr(contents)>> >>)
Coord(line, column) ==
    JObj(<< <<"line", JNum(line)>>, <<"column", JNum(column)>> >>)

FaceA == Face(S_red, S_rgb_ff0000, <<JStr(S_bold)>>)
FaceB == Face(S_rgba_ff0000ff, S_default, <<>>)
\* a face whose fg is shorter than the rgb: prefix
FaceShort == Face(S_rgb_short, S_default, <<>>)
\* a face whose fg is no color
FaceWrong == Face(S_Black, S_default, <<>>)
\* a face whose attributes are written as single-key maps
FaceMapped ==
    Face(S_default, S_blue,
         <<JObj(<< <<"bold", JNull>> >>), JStr(S_dim),
           JObj(<< <<"final_fg", JNull>> >>)>>)
\* a face whose attribute is a map that names no attribute
FaceEmptyMap == Face(S_default, S_blue, <<JObj(<<>>)>>)
LineA == JArr(<<Atom(FaceA, <<"x">>)>>)
LineB == JArr(<<Atom(FaceB, <<>>), Atom(FaceA, <<"y">>)>>)
LineShort == JArr(<<Atom(FaceShort, <<"x">>)>>)
LinesA == JArr(<<LineA, LineB>>)
LinesB == JArr(<<>>)
LinesShort == JArr(<<LineA, LineShort>>)

\* values of the documented type of a slot
Good(ty) ==
    CASE ty = "lines"   -> {LinesA, LinesB}
      [] ty = "line"    -> {LineA, LineB}
      [] ty = "face"    -> {FaceA, FaceB}
      [] ty = "coord"   -> {Coord(1, 2)}
      [] ty = "string"  -> {JStr(<<"a", "b">>)}
      [] ty = "u32"     -> {JNum(0), JNum(7)}
      [] ty = "bool"    -> {JBool(TRUE), JBool(FALSE)}
      [] ty = "options" -> {JObj(<<>>), JObj(<< <<"k", JStr(<<"v">>)>> >>)}

\* values that are not of the documented form of a slot
Bad(ty) ==
    CASE ty = "lines"   -> {JNull, LinesShort}
      [] ty = "line"    -> {JNull, LineShort}
      [] ty = "face"    -> {JNull, FaceShort, FaceWrong, FaceMapped,
                            FaceEmptyMap}
      [] ty = "coord"   -> {JNull}
      [] ty = "string"  -> {JNum(1)}
      [] ty = "u32"     -> {JNum(-1), JStr(<<"1">>)}
      [] ty = "bool"    -> {JNull}
      [] ty = "options" -> {JNull, JObj(<< <<"k", JNum(1)>> >>)}

RECURSIVE SlotProduct(_)
\* the sequences whose i-th element is drawn from choices[i]
SlotProduct(choices) ==
    IF choices = <<>> THEN {<<>>}
    ELSE {<<h>> \o t : h \in Head(choices), t \in SlotProduct(Tail(choices))}

\* params arrays drawn for a variant: up to its arity every slot holds a
\* good or a bad value of its type, and up to MaxExtra slots follow
ParamsFor(variant) ==
    LET tys == SlotTypes(variant)
        n == Len(tys)
    IN  UNION {SlotProduct([i \in 1..m |->
                              IF i <= n THEN Good(tys[i]) \cup Bad(tys[i])
                              ELSE {JNum(2)}])
               : m \in 0..(n + MaxExtra)}

Absent == J("absent", 0, FALSE, <<>>, <<>>, <<>>)

\* the object with the given values of jsonrpc, method and params, an
\* Absent one left out, written in the given key order
Message(order, jsonrpc, method, params) ==
    LET value(key) == CASE key = "jsonrpc" -> jsonrpc
                        [] key = "method"  -> method
                        [] key = "params"  -> params
        present == SelectSeq(order, LAMBDA key : value(key) # Absent)
    IN  JObj([i \in 1..Len(present) |-> <<present[i], value(present[i])>>])

KeyOrders ==
    {<<"jsonrpc", "method", "params">>, <<"params", "method", "jsonrpc">>}

JsonRpcValues == {JStr(S_version), JStr(<<"1">>), JNum(2), JNull, Absent}

\* the method values that are no wire name of an incoming method, or none
OtherMethods ==
    {JStr(S_keys), JNum(-1), JNum(4), JNull, Absent, JObj(<<>>),
     JObj(<< <<"menu_hide", JNull>> >>), JObj(<< <<"keys", JNull>> >>),
     JObj(<< <<"menu_hide", JNull>>, <<"info_hide", JNull>> >>),
     JObj(<< <<"info_hide", JNum(1)>> >>)}

\* the params values of messages whose params are missing or no array
OtherParams == {JNull, JObj(<<>>), Absent}

Threads == 1..NThreads

\* the messages the concurrent decoders are given
ThreadMessages ==
    {Message(<<"jsonrpc", "method", "params">>, JStr(S_version),
             JStr(S_draw), JArr(<<LinesA, FaceA, FaceB>>)),
     Message(<<"params", "method", "jsonrpc">>, JStr(S_version),
             JStr(S_set_cursor), JArr(<<JStr(<<"a", "b">>), Coord(1, 2)>>)),
     Message(<<"jsonrpc", "method", "params">>, JStr(S_version),
             JStr(S_menu_select), JArr(<<JNum(7)>>)),
     Message(<<"jsonrpc", "method", "params">>, JStr(S_version),
             JStr(S_menu_select), JArr(<<JNum(1), JNum(2)>>)),
     Message(<<"jsonrpc", "method", "params">>, JStr(S_version),
             JStr(S_menu_hide), JArr(<<>>)),
     Message(<<"jsonrpc", "method", "params">>, Absent,
             JStr(S_info_hide), JArr(<<>>)),
     Message(<<"jsonrpc", "method", "params">>, JStr(S_version),
             JStr(S_draw), JArr(<<LinesShort, FaceA, FaceB>>)),
     Message(<<"jsonrpc", "method", "params">>, JStr(S_version),
             JStr(S_keys), JArr(<<>>))}

OutgoingStrings == {<<"a">>, <<"b">>}
U32s == 0..MaxU32

\* the OutgoingRequest values encoded
OutgoingRequests ==
    {[variant |-> "Keys", keys |-> ks] :
        ks \in UNION {[1..n -> OutgoingStrings] : n \in 0..MaxKeys}}
    \cup {[variant |-> "Resize", rows |-> a, columns |-> b] :
        a \in U32s, b \in U32s}
    \cup {[variant |-> "Scroll", amount |-> a] : a \in U32s}
    \cup {[variant |-> "MouseMove", line |-> a, column |-> b] :
        a \in U32s, b \in U32s}
    \cup {[variant |-> "MousePress", button |-> s, line |-> a, column |-> b] :
        s \in OutgoingStrings, a \in U32s, b \in U32s}
    \cup {[variant |-> "MouseRelease", button |-> s, line |-> a, column |-> b] :
        s \in OutgoingStrings, a \in U32s, b \in U32s}
    \cup {[variant |-> "MenuSelect", index |-> a] : a \in U32s}

---------------------------------------------------------------------------
(* The codec calls, one at a time: op names the call, input what it was    *)
(* given, output what it returned (or that it panicked). The caller drops  *)
(* the values before the next call: the codec keeps nothing between calls. *)

EmptyBuffer == [jsonrpc |-> <<>>, collect |-> <<>>]
NoRaw == [variant |-> "none", slots |-> <<>>]

Init ==
    /\ op = "init"
    /\ input = JNull
    /\ output = Unset
    /\ pc = [t \in Threads |-> "idle"]
    /\ msg = [t \in Threads |-> JNull]
    /\ buffer = [t \in Threads |-> EmptyBuffer]
    /\ raw = [t \in Threads |-> NoRaw]
    /\ result = [t \in Threads |-> Unset]

\* KakColor::deserialize on a JSON value
DecodeColor ==
    /\ op = "init"
    /\ \E j \in ColorInputs :
          /\ input' = j
          /\ output' = Dec("color", j)
    /\ op' = "color"
    /\ UNCHANGED <<pc, msg, buffer, raw, result>>

\* IncomingRequest::deserialize on the JSON value j
DecodeCall(j) ==
    /\ input' = j
    /\ output' = IncomingRequest_deserialize(j)

\* a message naming an incoming method, with one of its drawn params arrays
Decode ==
    /\ op = "init"
    /\ \E o \in KeyOrders, v \in JsonRpcValues, i \in 1..Len(IncomingMethods) :
          \E p \in ParamsFor(IncomingVariants[i]) :
             DecodeCall(Message(o, v, JStr(IncomingMethods[i]), JArr(p)))
    /\ op' = "decode"
    /\ UNCHANGED <<pc, msg, buffer, raw, result>>

\* a message whose method is no wire name (unknown, a number, a map, null
\* or missing), or whose params are missing or no array
DecodeOther ==
    /\ op = "init"
    /\ \E o \in KeyOrders, v \in JsonRpcValues :
          \/ \E m \in OtherMethods, p \in OtherParams \cup {JArr(<<>>)} :
                 DecodeCall(Message(o, v, m, p))
          \/ \E i \in 1..Len(IncomingMethods), p \in OtherParams :
                 DecodeCall(Message(o, v, JStr(IncomingMethods[i]), p))
    /\ op' = "decode"
    /\ UNCHANGED <<pc, msg, buffer, raw, result>>

\* OutgoingRequest::serialize
Encode ==
    /\ op = "init"
    /\ \E request \in OutgoingRequests :
          /\ input' = request
          /\ output' = OutgoingRequest_serialize(request)
    /\ op' = "encode"
    /\ UNCHANGED <<pc, msg, buffer, raw, result>>

\* the caller is done with the call's input and output
Drop ==
    /\ op # "init"
    /\ op' = "init"
    /\ input' = JNull
    /\ output' = Unset
    /\ UNCHANGED <<pc, msg, buffer, raw, result>>

Next == DecodeColor \/ Decode \/ DecodeOther \/ Encode \/ Drop

Spec == Init /\ [][Next]_vars

---------------------------------------------------------------------------
(* Decode calls on several threads: each call's values are its own, and a  *)
(* step of one call is one of the three stages of the decode.              *)

\* Buffered with one buffer shared by the calls of all threads
BufferedShared(t) == buffer[1]

\* the entries the envelope of thread t's call buffered
Buffered(t) == buffer[t]

\* a thread is handed a message
Begin(t) ==
    /\ pc[t] \in {"idle", "done"}
    /\ \E j \in ThreadMessages : msg' = [msg EXCEPT ![t] = j]
    /\ pc' = [pc EXCEPT ![t] = "envelope"]
    /\ result' = [result EXCEPT ![t] = Unset]
    /\ UNCHANGED <<op, input, output, buffer, raw>>

\* the JsonRpc envelope reads jsonrpc and buffers the other entries
Envelope(t) ==
    /\ pc[t] = "envelope"
    /\ LET e == JsonRpcEnvelope(msg[t])
       IN  IF e.k = "ok"
           THEN /\ buffer' = [buffer EXCEPT ![t] = e.val]
                /\ pc' = [pc EXCEPT ![t] = "inner"]
                /\ UNCHANGED result
           ELSE /\ result' = [result EXCEPT ![t] = e]
                /\ pc' = [pc EXCEPT ![t] = "done"]
                /\ UNCHANGED buffer
    /\ UNCHANGED <<op, input, output, msg, raw>>

\* the flattened RawIncomingRequest is read from the buffered entries
Inner(t) ==
    /\ pc[t] = "inner"
    /\ LET r == DecRawIncomingRequest(Buffered(t).collect)
       IN  IF r.k = "ok"
           THEN /\ raw' = [raw EXCEPT ![t] = r.val]
                /\ pc' = [pc EXCEPT ![t] = "relabel"]
                /\ UNCHANGED result
           ELSE /\ result' = [result EXCEPT ![t] = r]
                /\ pc' = [pc EXCEPT ![t] = "done"]
                /\ UNCHANGED raw
    /\ buffer' = [buffer EXCEPT ![t] = EmptyBuffer]
    /\ UNCHANGED <<op, input, output, msg>>

\* .inner.into(): the raw request is relabelled and returned
Relabel(t) ==
    /\ pc[t] = "relabel"
    /\ result' = [result EXCEPT ![t] = Ok(IncomingRequest_from(raw[t]))]
    /\ raw' = [raw EXCEPT ![t] = NoRaw]
    /\ pc' = [pc EXCEPT ![t] = "done"]
    /\ UNCHANGED <<op, input, output, msg, buffer>>

NextThreads ==
    \E t \in Threads : Begin(t) \/ Envelope(t) \/ Inner(t) \/ Relabel(t)

SpecThreads == Init /\ [][NextThreads]_vars

---------------------------------------------------------------------------
(* The documented behaviour, stated apart from the definitions above.      *)

\* p is the beginning of s
HasPrefix(s, p) == Len(s) >= Len(p) /\ SubSeq(s, 1, Len(p)) = p

\* what follows the first n characters of s
Rest(s, n) == SubSeq(s, n + 1, Len(s))

\* the nine keywords and the color each names
KeywordTable ==
    {<<S_black, "Black">>, <<S_red, "Red">>, <<S_green, "Green">>,
     <<S_yellow, "Yellow">>, <<S_blue, "Blue">>, <<S_purple, "Purple">>,
     <<S_cyan, "Cyan">>, <<S_white, "White">>, <<S_default, "Default">>}

IsKeyword(s) == \E e \in KeywordTable : e[1] = s

\* the method table of the incoming path: wire name, variant, and the
\* named fields in order, each with the type of its slot
MethodTable ==
    <<[method |-> S_draw, variant |-> "Draw",
       fields |-> <<"lines", "default_face", "padding_face">>,
       types |-> <<"lines", "face", "face">>],
      [method |-> S_draw_status, variant |-> "DrawStatus",
       fields |-> <<"status_line", "mode_line", "default_face">>,
       types |-> <<"line", "line", "face">>],
      [method |-> S_menu_show, variant |-> "MenuShow",
       fields |-> <<"items", "anchor", "selected_item_face", "menu_face",
                    "style">>,
       types |-> <<"lines", "coord", "face", "face", "string">>],
      [method |-> S_menu_select, variant |-> "MenuSelect",
       fields |-> <<"selected">>, types |-> <<"u32">>],
      [method |-> S_menu_hide, variant |-> "MenuHide",
       fields |-> <<>>, types |-> <<>>],
      [method |-> S_info_show, variant |-> "InfoShow",
       fields |-> <<"title", "content", "anchor", "face", "style">>,
       types |-> <<"line", "lines", "coord", "face", "string">>],
      [method |-> S_info_hide, variant |-> "InfoHide",
       fields |-> <<>>, types |-> <<>>],
      [method |-> S_set_cursor, variant |-> "SetCursor",
       fields |-> <<"mode", "coord">>, types |-> <<"string", "coord">>],
      [method |-> S_set_ui_options, variant |-> "SetUiOptions",
       fields |-> <<"options">>, types |-> <<"options">>],
      [method |-> S_refresh, variant |-> "Refresh",
       fields |-> <<"force">>, types |-> <<"bool">>]>>

HasField(j, key) == j.t = "obj" /\ \E p \in 1..Len(j.o) : j.o[p][1] = key

\* the value of the entry of object j named key
Field(j, key) == j.o[CHOOSE p \in 1..Len(j.o) : j.o[p][1] = key][2]

\* j names one of the ten methods
NamesMethod(j) ==
    /\ HasField(j, "method")
    /\ Field(j, "method").t = "str"
    /\ \E i \in 1..Len(MethodTable) : MethodTable[i].method = Field(j, "method").s

\* the row of the method table that j names
Row(j) ==
    MethodTable[CHOOSE i \in 1..Len(MethodTable) :
                    MethodTable[i].method = Field(j, "method").s]

\* j carries a method of the table and a params array
HasParams(j) ==
    /\ NamesMethod(j)
    /\ HasField(j, "params")
    /\ Field(j, "params").t = "arr"

\* j is well formed but for its version marker: its params have the
\* documented arity and every slot holds a value of its documented type
WellFormedPayload(j) ==
    /\ HasParams(j)
    /\ Len(Field(j, "params").a) = Len(Row(j).types)
    /\ \A n \in 1..Len(Row(j).types) :
          Field(j, "params").a[n] \in Good(Row(j).types[n])

WellFormed(j) ==
    /\ WellFormedPayload(j)
    /\ HasField(j, "jsonrpc")
    /\ Field(j, "jsonrpc").t = "str"

\* j with the value of its version marker replaced by v
WithVersion(j, v) ==
    JObj([p \in 1..Len(j.o) |->
            IF j.o[p][1] = "jsonrpc" THEN <<"jsonrpc", v>> ELSE j.o[p]])

\* two outcomes are the same value, the same error or both a panic
SameOutcome(x, y) == x.k = y.k /\ x.val = y.val

\* C1: decoding a color token never panics: every string, also one shorter
\* than the prefix, yields a value or an error.
C1_ColorDecodeNeverPanics ==
    op = "color" => output.k \in {"ok", "err"}

\* C2: a string that is no keyword and begins with neither rgb: nor rgba:
\* decodes to the invalid-color error carrying the token, never to a color.
C2_OtherTokenIsInvalidColor ==
    (/\ op = "color"
     /\ input.t = "str"
     /\ ~IsKeyword(input.s)
     /\ ~HasPrefix(input.s, S_rgb)
     /\ ~HasPrefix(input.s, S_rgba))
    => /\ output.k = "err"
       /\ output.val = [kind |-> "invalid_value", token |-> input.s]

\* C3: a keyword decodes to its color and nothing but the exact keyword
\* does; a token beginning with rgb: decodes to RGB of the rest of the
\* string and one beginning with rgba: to RGBA of the rest, verbatim.
C3_ColorDecode ==
    (op = "color" /\ input.t = "str")
    => /\ \A e \in KeywordTable :
            input.s = e[1] <=> (output.k = "ok" /\ output.val = Named(e[2]))
       /\ HasPrefix(input.s, S_rgb)
            => (output.k = "ok" /\ output.val = RGB(Rest(input.s, 4)))
       /\ HasPrefix(input.s, S_rgba)
            => (output.k = "ok" /\ output.val = RGBA(Rest(input.s, 5)))

C3_Witness ==
    /\ op = "color"
    /\ input = JStr(S_rgba_ff0000ff)
    /\ output.k = "ok"
    /\ output.val = RGBA(<<"f", "f", "0", "0", "0", "0", "f", "f">>)

\* C4: a message with the documented arity and slot types decodes to the
\* variant of its method, whose i-th named field is the decoded value of
\* slot i of params and which has no other field.
C4_SlotsBecomeFields ==
    (op = "decode" /\ WellFormed(input))
    => /\ output.k = "ok"
       /\ output.val.variant = Row(input).variant
       /\ DOMAIN output.val =
            {"variant"} \cup {Row(input).fields[n] :
                                 n \in 1..Len(Row(input).fields)}
       /\ \A n \in 1..Len(Row(input).fields) :
            output.val[Row(input).fields[n]] =
               Dec(Row(input).types[n], Field(input, "params").a[n]).val

C4_Witness ==
    /\ op = "decode"
    /\ WellFormed(input)
    /\ Field(input, "method").s = S_menu_show
    /\ Field(input, "params").a[3] # Field(input, "params").a[4]
    /\ output.k = "ok"
    /\ output.val.anchor = [line |-> 1, column |-> 2]
    /\ output.val.style = <<"a", "b">>
    /\ output.val.selected_item_face # output.val.menu_face
    /\ output.val.menu_face.fg = Named("Red")

\* C5: a message whose params array differs in length from the arity of
\* its method fails decode with an error: no value, and no panic.
C5_ArityMismatchIsError ==
    (/\ op = "decode"
     /\ HasParams(input)
     /\ Len(Field(input, "params").a) # Len(Row(input).fields))
    => output.k = "err"

\* the wire name of each outgoing variant
OutgoingNames ==
    {<<"Keys", S_keys>>, <<"Resize", S_resize>>, <<"Scroll", S_scroll>>,
     <<"MouseMove", S_mouse_move>>, <<"MousePress", S_mouse_press>>,
     <<"MouseRelease", S_mouse_release>>, <<"MenuSelect", S_menu_select>>}

\* the params of each outgoing variant but Keys, in the documented order
DocumentedParams(request) ==
    CASE request.variant = "Resize" ->
           <<JNum(request.rows), JNum(request.columns)>>
      [] request.variant = "Scroll" -> <<JNum(request.amount)>>
      [] request.variant = "MouseMove" ->
           <<JNum(request.line), JNum(request.column)>>
      [] request.variant \in {"MousePress", "MouseRelease"} ->
           <<JStr(request.button), JNum(request.line), JNum(request.column)>>
      [] request.variant = "MenuSelect" -> <<JNum(request.index)>>

\* C6: encoding never fails and yields the object of jsonrpc "2.0", the
\* variant's snake-case method name and the params array of its fields in
\* the documented order, a single field in a one-element array.
C6_EncodeShape ==
    op = "encode"
    => /\ output.k = "ok"
       /\ output.val.t = "obj"
       /\ Len(output.val.o) = 3
       /\ output.val.o[1] = <<"jsonrpc", JStr(<<"2", ".", "0">>)>>
       /\ output.val.o[2][1] = "method"
       /\ <<input.variant, output.val.o[2][2].s>> \in OutgoingNames
       /\ output.val.o[2][2].t = "str"
       /\ output.val.o[3][1] = "params"
       /\ output.val.o[3][2].t = "arr"
       /\ input.variant # "Keys"
            => output.val.o[3][2] = JArr(DocumentedParams(input))

C6_Witness ==
    /\ op = "encode"
    /\ input = [variant |-> "MousePress", button |-> <<"b">>, line |-> 1,
                column |-> 2]
    /\ output.k = "ok"
    /\ Field(output.val, "method") = JStr(S_mouse_press)
    /\ Field(output.val, "params") = JArr(<<JStr(<<"b">>), JNum(1), JNum(2)>>)

\* C7: Keys(list) is encoded with the key strings as the params array
\* itself, one slot per key in the original order, never wrapped.
C7_KeysAreTheParams ==
    (op = "encode" /\ input.variant = "Keys")
    => /\ output.k = "ok"
       /\ Field(output.val, "params").t = "arr"
       /\ Len(Field(output.val, "params").a) = Len(input.keys)
       /\ \A i \in 1..Len(input.keys) :
            Field(output.val, "params").a[i] = JStr(input.keys[i])

C7_Witness ==
    /\ op = "encode"
    /\ input = [variant |-> "Keys", keys |-> << <<"a">>, <<"b">> >>]
    /\ output.k = "ok"
    /\ Field(output.val, "params") = JArr(<<JStr(<<"a">>), JStr(<<"b">>)>>)

\* C8 as stated: a message that is otherwise well formed decodes whatever
\* value its jsonrpc field holds.
C8_AnyVersionValueAccepted ==
    (/\ op = "decode"
     /\ WellFormedPayload(input)
     /\ HasField(input, "jsonrpc"))
    => output.k = "ok"

\* C8 as amended: a message without the jsonrpc field fails decode; one
\* that is otherwise well formed decodes to the same request whatever
\* string its jsonrpc field holds, and fails when the field holds a value
\* that is no string.
C8_AnyVersionStringAccepted ==
    op = "decode"
    => /\ (input.t = "obj" /\ ~HasField(input, "jsonrpc")) => output.k = "err"
       /\ WellFormed(input)
            => SameOutcome(output,
                           IncomingRequest_deserialize(
                               WithVersion(input, JStr(S_version))))
       /\ (/\ WellFormedPayload(input)
           /\ HasField(input, "jsonrpc")
           /\ Field(input, "jsonrpc").t # "str") => output.k = "err"

C8_Witness ==
    /\ op = "decode"
    /\ WellFormed(input)
    /\ Field(input, "jsonrpc") = JStr(<<"1">>)
    /\ Field(input, "method").s = S_set_cursor
    /\ output.k = "ok"
    /\ output.val.mode = <<"a", "b">>

\* C10: whatever the interleaving of the decode calls of several threads,
\* each call that has returned has the outcome of decoding its message
\* alone.
C10_ThreadsDecodeAlone ==
    \A t \in Threads :
        pc[t] = "done"
        => SameOutcome(result[t], IncomingRequest_deserialize(msg[t]))

C10_Witness ==
    \E t \in Threads, u \in Threads :
        /\ t # u
        /\ pc[t] = "done" /\ pc[u] = "done"
        /\ result[t].k = "ok" /\ result[t].val.variant = "Draw"
        /\ result[u].k = "err"
        /\ Field(msg[u], "method").s = S_menu_select

====
